---------------------------- MODULE Spec2Model ----------------------------
(***************************************************************************)
(* The multi-threaded bank of C++/Multi_Threading_Bank_System/main.cpp:    *)
(* Account (balance guarded by accMutex), Bank (accounts, transactions,    *)
(* nextAccountNumber, the process-wide globalMutex) and the menu loop      *)
(* userMenu, run here by several concurrent callers.  Each step of a       *)
(* caller is one action; a lock_guard is an acquire step (enabled only     *)
(* while the mutex is free) and a release at the end of its scope.         *)
(*                                                                         *)
(* Undefined behaviour is a choice among the outcomes a build produces:    *)
(*   - signed overflow of balance += amount: two's complement wrap, or a   *)
(*     trap that ends the process;                                         *)
(*   - a traversal of a vector (findAccount, displayAllAccounts,           *)
(*     displayTransactions) that races with push_back/emplace_back: the    *)
(*     right answer, a missed element, or a crash of the process;          *)
(*   - locking an accMutex the thread already owns (self-transfer): the    *)
(*     thread blocks for ever, or the process is terminated.               *)
(* Account names, account types, timestamps and printed text do not        *)
(* influence any state and are left out.                                   *)
(***************************************************************************)
EXTENDS Integers, Sequences, FiniteSets, Bags, TLC

\* ------------------------------------------------------------- bounds
\* The number of operations (menu choices) the callers start altogether.
MaxOps == 2

\* -------------------------------------------------- program constants
BaseAccountNumber == 1000
NoAccount == -1
IntMax == 2147483647
IntMin == -IntMax - 1

NULL == 0
\* The concurrent callers of the bank's operations.
Threads == {1, 2}
\* Account numbers a caller types: the first two numbers the bank assigns
\* (a number is unregistered until its account has been created).
Keys == BaseAccountNumber..(BaseAccountNumber + 1)
\* Amounts and initial balances a caller types.
Amounts == {0, 1, 2}
InitialBalances == {-1, 1, IntMax}

VARIABLES
    accounts,           \* Bank::accounts: <<[accountNumber, balance], ...>>
    accMutex,           \* accMutex[i]: the thread owning accounts[i]'s mutex, 0 = free
    globalMutex,        \* the thread owning globalMutex, 0 = free
    transactions,       \* Bank::transactions
    nextAccountNumber,  \* Bank::nextAccountNumber
    pc,                 \* pc[t]: where caller t is
    frame,              \* frame[t]: the locals of userMenu and of the call in progress
    result,             \* result[t]: outcome of t's last finished operation
    crashed,            \* the process has been terminated
    started,            \* number of operations started so far (bounded by MaxOps)
    opening,            \* history: opening[i] is the initial balance of accounts[i]
    committed,          \* history: bag of the operations that returned true
    wrote               \* history: wrote[t] iff t's current operation has written a balance

vars == <<accounts, accMutex, globalMutex, transactions, nextAccountNumber,
          pc, frame, result, crashed, started, opening, committed, wrote>>

IdleFrame ==
    [op |-> "none", accNum |-> 0, toAcc |-> 0, amount |-> 0,
     from |-> NULL, to |-> NULL, it |-> 0, end |-> 0, raced |-> FALSE]

NoResult == [op |-> "none", status |-> "none", value |-> 0]

\* Transaction's constructor (the timestamp is left out).
Transaction(id, typ, amt, from, to) ==
    [transactionId |-> id, type |-> typ, amount |-> amt,
     fromAccount |-> from, toAccount |-> to]

\* The bank after construction and after the first caller, alone, has opened
\* at most one account per number of Keys through createAccount, each with a
\* positive initial balance (numbered from BaseAccountNumber in the order of
\* creation; createAccount logs nothing).
Opened ==
    UNION {[1..k -> {b \in InitialBalances : b > 0}] : k \in 0..Cardinality(Keys)}

\* The deposits of 1 the first caller, alone, has then made into the first
\* account (none, or one where the account exists and the sum fits an int):
\* each is in the balance and in the log.
FirstDeposits(o) ==
    IF Len(o) > 0 /\ ~(o[1] > IntMax - 1) THEN {0, 1} ELSE {0}

FirstDeposit ==
    [type |-> "Deposit", amount |-> 1, fromAccount |-> BaseAccountNumber,
     toAccount |-> NoAccount]

Init ==
    /\ opening \in Opened
    /\ \E d \in FirstDeposits(opening) :
          /\ accounts = [i \in 1..Len(opening) |->
                           [accountNumber |-> BaseAccountNumber + i - 1,
                            balance |-> IF i = 1 THEN opening[i] + d
                                                 ELSE opening[i]]]
          /\ transactions =
                IF d = 1
                THEN <<Transaction(1, FirstDeposit.type, FirstDeposit.amount,
                                   FirstDeposit.fromAccount, FirstDeposit.toAccount)>>
                ELSE <<>>
          /\ committed = IF d = 1 THEN SetToBag({FirstDeposit}) ELSE EmptyBag
    /\ accMutex = [i \in 1..Len(opening) |-> 0]
    /\ globalMutex = 0
    /\ nextAccountNumber = BaseAccountNumber + Len(opening)
    /\ pc = [t \in Threads |-> "menu"]
    /\ frame = [t \in Threads |-> IdleFrame]
    /\ result = [t \in Threads |-> NoResult]
    /\ crashed = FALSE
    /\ started = 0
    /\ wrote = [t \in Threads |-> FALSE]

\* ------------------------------------------------------------ helpers

\* Bank::findAccount: the first account carrying the number, or nullptr.
FindAccount(n) ==
    IF \E i \in 1..Len(accounts) : accounts[i].accountNumber = n
    THEN CHOOSE i \in 1..Len(accounts) :
            /\ accounts[i].accountNumber = n
            /\ \A j \in 1..(i - 1) : accounts[j].accountNumber # n
    ELSE NULL

\* int + int for a positive addend: the sum leaves the range of int.
Overflows(b, a) == a > 0 /\ b > IntMax - a

\* The two's complement result of b + a (a > 0).
WrapAdd(b, a) ==
    IF Overflows(b, a) THEN IntMin + (a - (IntMax - b) - 1) ELSE b + a

\* The pcs at which a caller is traversing Bank::accounts without a lock.
AccountsTraversal == {"find_from", "find_to", "va_iter", "va_cs"}
\* The pcs at which a caller is traversing Bank::transactions without a lock.
TransactionsTraversal == {"vt_iter", "vt_cs"}

\* The frames after a push_back/emplace_back: every traversal in progress raced.
Raced(traversal) ==
    [t \in Threads |->
        IF pc[t] \in traversal THEN [frame[t] EXCEPT !.raced = TRUE] ELSE frame[t]]

Running(t) == ~crashed /\ t \in Threads

\* The operation of caller t ends: back to the menu with its outcome.
Return(t, status, value) ==
    /\ pc' = [pc EXCEPT ![t] = "menu"]
    /\ frame' = [frame EXCEPT ![t] = IdleFrame]
    /\ result' = [result EXCEPT ![t] = [op |-> frame[t].op, status |-> status,
                                         value |-> value]]

\* The process is terminated (uncaught exception, trap, segmentation fault):
\* every caller stops where it is and its locals are gone; the bank's data is
\* left as it was.
Crash ==
    /\ crashed' = TRUE
    /\ pc' = [t \in Threads |-> "dead"]
    /\ frame' = [t \in Threads |-> IdleFrame]
    /\ result' = [t \in Threads |-> NoResult]
    /\ wrote' = [t \in Threads |-> FALSE]
    /\ UNCHANGED <<accounts, accMutex, globalMutex, transactions, nextAccountNumber,
                   started, opening, committed>>

\* A menu choice is read: a new operation starts.
Start(t, f, next) ==
    /\ Running(t)
    /\ pc[t] = "menu"
    /\ started < MaxOps
    /\ started' = started + 1
    /\ pc' = [pc EXCEPT ![t] = next]
    /\ frame' = [frame EXCEPT ![t] = f]
    /\ result' = [result EXCEPT ![t] = NoResult]
    /\ wrote' = [wrote EXCEPT ![t] = FALSE]
    /\ UNCHANGED <<accounts, accMutex, globalMutex, transactions, nextAccountNumber,
                   crashed, opening, committed>>

bankVars == <<accounts, accMutex, globalMutex, transactions, nextAccountNumber>>
histVars == <<opening, committed, wrote>>

\* ------------------------------------------------------- userMenu: choices

ChooseCreate(t) ==
    \E b \in InitialBalances :
        Start(t, [IdleFrame EXCEPT !.op = "Create", !.amount = b], "c_lock")

ChooseDeposit(t) ==
    \E n \in Keys, a \in Amounts :
        Start(t, [IdleFrame EXCEPT !.op = "Deposit", !.accNum = n, !.amount = a],
              "find_from")

ChooseWithdraw(t) ==
    \E n \in Keys, a \in Amounts :
        Start(t, [IdleFrame EXCEPT !.op = "Withdraw", !.accNum = n, !.amount = a],
              "find_from")

ChooseTransfer(t) ==
    \E n \in Keys, m \in Keys, a \in Amounts :
        Start(t, [IdleFrame EXCEPT !.op = "Transfer", !.accNum = n, !.toAcc = m,
                                   !.amount = a], "find_from")

ChooseView(t) ==
    \E n \in Keys \cup {0} :
        IF n = 0
        THEN Start(t, [IdleFrame EXCEPT !.op = "ViewAll", !.it = 1,
                                        !.end = Len(accounts)], "va_iter")
        ELSE Start(t, [IdleFrame EXCEPT !.op = "View", !.accNum = n], "find_from")

ChooseHistory(t) ==
    Start(t, [IdleFrame EXCEPT !.op = "History", !.it = 1,
                               !.end = Len(transactions)], "vt_iter")

\* --------------------------------------------------- Bank::findAccount

\* What a lookup of number n by caller t may return: the account, and, when a
\* push_back raced with the traversal, also nullptr.
Found(t, n) ==
    IF frame[t].raced THEN {FindAccount(n), NULL} ELSE {FindAccount(n)}

\* A faulty AfterFind: the deposit is recorded without Account::deposit being called.
AfterFindNoDeposit(op) ==
    CASE op = "Deposit" -> "rec_lock"
      [] op = "Withdraw" -> "wd_lock"
      [] op = "Transfer" -> "find_to"
      [] OTHER -> "disp_lock"

AfterFind(op) ==
    CASE op = "Deposit" -> "dep"
      [] op = "Withdraw" -> "wd_lock"
      [] op = "Transfer" -> "find_to"
      [] OTHER -> "disp_lock"

FindFrom(t) ==
    /\ Running(t)
    /\ pc[t] = "find_from"
    /\ \E p \in Found(t, frame[t].accNum) :
         IF p = NULL
         THEN Return(t, "fail", 0)
         ELSE /\ pc' = [pc EXCEPT ![t] = AfterFind(frame[t].op)]
              /\ frame' = [frame EXCEPT ![t].from = p, ![t].raced = FALSE]
              /\ UNCHANGED result
    /\ UNCHANGED <<bankVars, histVars, crashed, started>>

FindTo(t) ==
    /\ Running(t)
    /\ pc[t] = "find_to"
    /\ \E p \in Found(t, frame[t].toAcc) :
         IF p = NULL
         THEN Return(t, "fail", 0)
         ELSE /\ pc' = [pc EXCEPT ![t] = "tr_lock"]
              /\ frame' = [frame EXCEPT ![t].to = p, ![t].raced = FALSE]
              /\ UNCHANGED result
    /\ UNCHANGED <<bankVars, histVars, crashed, started>>

\* ------------------------------------------------------------- Account

\* A faulty LockAccount: the mutex is taken without waiting for its owner.
LockAccountNoWait(t, i) == accMutex' = [accMutex EXCEPT ![i] = t]

\* lock_guard<mutex> on accounts[i].accMutex by caller t: blocks while it is owned.
LockAccount(t, i) ==
    /\ accMutex[i] = 0
    /\ accMutex' = [accMutex EXCEPT ![i] = t]

\* A faulty InvalidDebit: the funds check is forgotten.
InvalidDebitNoFunds(amount, balance) == amount <= 0

\* The guards of Account::deposit and of Account::withdraw / Account::transfer.
InvalidDeposit(amount) == amount <= 0
InvalidDebit(amount, balance) == amount <= 0 \/ amount > balance

\* balance -= amount and balance += amount on accounts[i].
Debit(accs, i, amount) == [accs EXCEPT ![i].balance = @ - amount]
Credit(accs, i, amount) == [accs EXCEPT ![i].balance = WrapAdd(@, amount)]

\* A faulty Entry: a transfer is recorded without its target.
EntryNoTarget(t) ==
    [type |-> frame[t].op, amount |-> frame[t].amount,
     fromAccount |-> frame[t].accNum, toAccount |-> NoAccount]

\* The arguments userMenu passes to recordTransaction for the operation of
\* caller t (toAccount defaults to -1).
Entry(t) ==
    [type |-> frame[t].op, amount |-> frame[t].amount,
     fromAccount |-> frame[t].accNum,
     toAccount |-> IF frame[t].op = "Transfer" THEN frame[t].toAcc ELSE NoAccount]

\* History: the operation caller t has just performed on the accounts it found.
Performed(t) ==
    [type |-> frame[t].op, amount |-> frame[t].amount,
     fromAccount |-> accounts[frame[t].from].accountNumber,
     toAccount |-> IF frame[t].to = NULL THEN NoAccount
                   ELSE accounts[frame[t].to].accountNumber]

\* The call of caller t returned true: userMenu goes on to recordTransaction.
Succeed(t) ==
    /\ pc' = [pc EXCEPT ![t] = "rec_lock"]
    /\ result' = [result EXCEPT ![t] = [op |-> frame[t].op, status |-> "ok",
                                         value |-> 0]]
    /\ committed' = committed (+) SetToBag({Performed(t)})
    /\ UNCHANGED frame

\* Account::deposit up to the lock_guard.
Deposit(t) ==
    /\ Running(t)
    /\ pc[t] = "dep"
    /\ IF InvalidDeposit(frame[t].amount)
       THEN Return(t, "fail", 0) /\ UNCHANGED accMutex
       ELSE /\ LockAccount(t, frame[t].from)
            /\ pc' = [pc EXCEPT ![t] = "dep_cs"]
            /\ UNCHANGED <<frame, result>>
    /\ UNCHANGED <<accounts, globalMutex, transactions, nextAccountNumber,
                   histVars, crashed, started>>

\* A faulty DepositBody: the guard is still alive when deposit has returned.
DepositBodyKeepLock(t) ==
    /\ Running(t)
    /\ pc[t] = "dep_cs"
    /\ accounts' = Credit(accounts, frame[t].from, frame[t].amount)
    /\ wrote' = [wrote EXCEPT ![t] = TRUE]
    /\ Succeed(t)
    /\ UNCHANGED <<accMutex, globalMutex, transactions, nextAccountNumber, opening,
                   crashed, started>>

\* Account::deposit under the lock: balance += amount; return true.
DepositBody(t) ==
    /\ Running(t)
    /\ pc[t] = "dep_cs"
    /\ accounts' = Credit(accounts, frame[t].from, frame[t].amount)
    /\ accMutex' = [accMutex EXCEPT ![frame[t].from] = 0]
    /\ wrote' = [wrote EXCEPT ![t] = TRUE]
    /\ Succeed(t)
    /\ UNCHANGED <<globalMutex, transactions, nextAccountNumber, opening,
                   crashed, started>>

\* Account::withdraw: the lock_guard.
WithdrawLock(t) ==
    /\ Running(t)
    /\ pc[t] = "wd_lock"
    /\ LockAccount(t, frame[t].from)
    /\ pc' = [pc EXCEPT ![t] = "wd_cs"]
    /\ UNCHANGED <<accounts, globalMutex, transactions, nextAccountNumber,
                   frame, result, histVars, crashed, started>>

\* A faulty WithdrawBody: the failure path returns without unlocking.
WithdrawBodyLeak(t) ==
    /\ Running(t)
    /\ pc[t] = "wd_cs"
    /\ IF InvalidDebit(frame[t].amount, accounts[frame[t].from].balance)
       THEN Return(t, "fail", 0) /\ UNCHANGED <<accounts, accMutex, committed, wrote>>
       ELSE /\ accMutex' = [accMutex EXCEPT ![frame[t].from] = 0]
            /\ accounts' = Debit(accounts, frame[t].from, frame[t].amount)
            /\ wrote' = [wrote EXCEPT ![t] = TRUE]
            /\ Succeed(t)
    /\ UNCHANGED <<globalMutex, transactions, nextAccountNumber, opening,
                   crashed, started>>

\* Account::withdraw under the lock.
WithdrawBody(t) ==
    /\ Running(t)
    /\ pc[t] = "wd_cs"
    /\ accMutex' = [accMutex EXCEPT ![frame[t].from] = 0]
    /\ IF InvalidDebit(frame[t].amount, accounts[frame[t].from].balance)
       THEN Return(t, "fail", 0) /\ UNCHANGED <<accounts, committed, wrote>>
       ELSE /\ accounts' = Debit(accounts, frame[t].from, frame[t].amount)
            /\ wrote' = [wrote EXCEPT ![t] = TRUE]
            /\ Succeed(t)
    /\ UNCHANGED <<globalMutex, transactions, nextAccountNumber, opening,
                   crashed, started>>

\* Account::transfer: the lock_guard on the source.
TransferLock(t) ==
    /\ Running(t)
    /\ pc[t] = "tr_lock"
    /\ LockAccount(t, frame[t].from)
    /\ pc' = [pc EXCEPT ![t] = "tr_cs"]
    /\ UNCHANGED <<accounts, globalMutex, transactions, nextAccountNumber,
                   frame, result, histVars, crashed, started>>

\* Account::transfer under the source's lock: the check and balance -= amount.
TransferDebit(t) ==
    /\ Running(t)
    /\ pc[t] = "tr_cs"
    /\ IF InvalidDebit(frame[t].amount, accounts[frame[t].from].balance)
       THEN /\ accMutex' = [accMutex EXCEPT ![frame[t].from] = 0]
            /\ Return(t, "fail", 0)
            /\ UNCHANGED <<accounts, wrote>>
       ELSE /\ accounts' = Debit(accounts, frame[t].from, frame[t].amount)
            /\ wrote' = [wrote EXCEPT ![t] = TRUE]
            /\ pc' = [pc EXCEPT ![t] = "tr_lock_to"]
            /\ UNCHANGED <<accMutex, frame, result>>
    /\ UNCHANGED <<globalMutex, transactions, nextAccountNumber, opening, committed,
                   crashed, started>>

\* Account::transfer: the lock_guard on the target, the source's lock still held.
TransferLockTarget(t) ==
    /\ Running(t)
    /\ pc[t] = "tr_lock_to"
    /\ LockAccount(t, frame[t].to)
    /\ pc' = [pc EXCEPT ![t] = "tr_credit"]
    /\ UNCHANGED <<accounts, globalMutex, transactions, nextAccountNumber,
                   frame, result, histVars, crashed, started>>

\* Account::transfer under both locks: toAccount.balance += amount; return true.
TransferCredit(t) ==
    /\ Running(t)
    /\ pc[t] = "tr_credit"
    /\ accounts' = Credit(accounts, frame[t].to, frame[t].amount)
    /\ accMutex' = [accMutex EXCEPT ![frame[t].to] = 0, ![frame[t].from] = 0]
    /\ Succeed(t)
    /\ UNCHANGED <<globalMutex, transactions, nextAccountNumber, opening, wrote,
                   crashed, started>>

\* balance += amount overflows and the build traps: the process ends.
OverflowTrap(t) ==
    /\ Running(t)
    /\ \/ pc[t] = "dep_cs"
          /\ Overflows(accounts[frame[t].from].balance, frame[t].amount)
       \/ pc[t] = "tr_credit"
          /\ Overflows(accounts[frame[t].to].balance, frame[t].amount)
    /\ Crash

\* A self-transfer locks the accMutex its thread owns: the thread blocks for
\* ever (no step), or the library reports the deadlock and the process ends.
SelfLockAbort(t) ==
    /\ Running(t)
    /\ pc[t] = "tr_lock_to"
    /\ accMutex[frame[t].to] = t
    /\ Crash

\* Account::display: the lock_guard.
DisplayLock(t) ==
    /\ Running(t)
    /\ pc[t] = "disp_lock"
    /\ LockAccount(t, frame[t].from)
    /\ pc' = [pc EXCEPT ![t] = "disp_cs"]
    /\ UNCHANGED <<accounts, globalMutex, transactions, nextAccountNumber,
                   frame, result, histVars, crashed, started>>

\* Account::display under the lock: the account is printed.
DisplayBody(t) ==
    /\ Running(t)
    /\ pc[t] = "disp_cs"
    /\ accMutex' = [accMutex EXCEPT ![frame[t].from] = 0]
    /\ Return(t, "ok", 0)
    /\ UNCHANGED <<accounts, globalMutex, transactions, nextAccountNumber,
                   histVars, crashed, started>>

\* ---------------------------------------------------------------- Bank

\* A faulty LockGlobal: the mutex is taken without waiting for its owner.
LockGlobalNoWait(t) == globalMutex' = t

\* lock_guard<mutex> on globalMutex by caller t: blocks while it is owned.
LockGlobal(t) ==
    /\ globalMutex = 0
    /\ globalMutex' = t

\* Bank::createAccount: the lock_guard.
CreateLock(t) ==
    /\ Running(t)
    /\ pc[t] = "c_lock"
    /\ LockGlobal(t)
    /\ pc' = [pc EXCEPT ![t] = "c_push"]
    /\ UNCHANGED <<accounts, accMutex, transactions, nextAccountNumber,
                   frame, result, histVars, crashed, started>>

\* Bank::createAccount: accounts.push_back(make_unique<Account>(...)).
CreatePush(t) ==
    /\ Running(t)
    /\ pc[t] = "c_push"
    /\ accounts' = Append(accounts, [accountNumber |-> nextAccountNumber,
                                     balance |-> frame[t].amount])
    /\ accMutex' = Append(accMutex, 0)
    /\ opening' = Append(opening, frame[t].amount)
    /\ frame' = [Raced(AccountsTraversal) EXCEPT ![t].from = Len(accounts) + 1]
    /\ pc' = [pc EXCEPT ![t] = "c_ret"]
    /\ UNCHANGED <<globalMutex, transactions, nextAccountNumber, result,
                   committed, wrote, crashed, started>>

\* Bank::createAccount: return nextAccountNumber++, and the guard's release.
CreateReturn(t) ==
    /\ Running(t)
    /\ pc[t] = "c_ret"
    /\ nextAccountNumber' = nextAccountNumber + 1
    /\ globalMutex' = 0
    /\ Return(t, "ok", nextAccountNumber)
    /\ UNCHANGED <<accounts, accMutex, transactions, histVars, crashed, started>>

\* Bank::recordTransaction: the lock_guard.
RecordLock(t) ==
    /\ Running(t)
    /\ pc[t] = "rec_lock"
    /\ LockGlobal(t)
    /\ pc' = [pc EXCEPT ![t] = "rec_cs"]
    /\ UNCHANGED <<accounts, accMutex, transactions, nextAccountNumber,
                   frame, result, histVars, crashed, started>>

\* A faulty NextTransactionId: the + 1 is forgotten.
NextTransactionIdStale == Len(transactions)

\* The id recordTransaction gives the next record: transactions.size() + 1.
NextTransactionId == Len(transactions) + 1

\* Bank::recordTransaction under the lock: emplace_back, then back to the menu.
RecordBody(t) ==
    /\ Running(t)
    /\ pc[t] = "rec_cs"
    /\ transactions' = Append(transactions,
                              Transaction(NextTransactionId, Entry(t).type,
                                          Entry(t).amount, Entry(t).fromAccount,
                                          Entry(t).toAccount))
    /\ globalMutex' = 0
    /\ pc' = [pc EXCEPT ![t] = "menu"]
    /\ frame' = [Raced(TransactionsTraversal) EXCEPT ![t] = IdleFrame]
    /\ UNCHANGED <<accounts, accMutex, nextAccountNumber, result, histVars,
                   crashed, started>>

\* Bank::displayAllAccounts: the loop's test, and Account::display's lock_guard.
ViewAllNext(t) ==
    /\ Running(t)
    /\ pc[t] = "va_iter"
    /\ IF frame[t].it > frame[t].end
       THEN Return(t, "ok", 0) /\ UNCHANGED accMutex
       ELSE /\ LockAccount(t, frame[t].it)
            /\ pc' = [pc EXCEPT ![t] = "va_cs"]
            /\ UNCHANGED <<frame, result>>
    /\ UNCHANGED <<accounts, globalMutex, transactions, nextAccountNumber,
                   histVars, crashed, started>>

\* Bank::displayAllAccounts: Account::display under the lock, then ++it.
ViewAllBody(t) ==
    /\ Running(t)
    /\ pc[t] = "va_cs"
    /\ accMutex' = [accMutex EXCEPT ![frame[t].it] = 0]
    /\ frame' = [frame EXCEPT ![t].it = @ + 1]
    /\ pc' = [pc EXCEPT ![t] = "va_iter"]
    /\ UNCHANGED <<accounts, globalMutex, transactions, nextAccountNumber,
                   result, histVars, crashed, started>>

\* Bank::displayTransactions: the loop's test, and Transaction::display's lock_guard.
HistoryNext(t) ==
    /\ Running(t)
    /\ pc[t] = "vt_iter"
    /\ IF frame[t].it > frame[t].end
       THEN Return(t, "ok", 0) /\ UNCHANGED globalMutex
       ELSE /\ LockGlobal(t)
            /\ pc' = [pc EXCEPT ![t] = "vt_cs"]
            /\ UNCHANGED <<frame, result>>
    /\ UNCHANGED <<accounts, accMutex, transactions, nextAccountNumber,
                   histVars, crashed, started>>

\* Bank::displayTransactions: Transaction::display under the lock, then ++it.
HistoryBody(t) ==
    /\ Running(t)
    /\ pc[t] = "vt_cs"
    /\ globalMutex' = 0
    /\ frame' = [frame EXCEPT ![t].it = @ + 1]
    /\ pc' = [pc EXCEPT ![t] = "vt_iter"]
    /\ UNCHANGED <<accounts, accMutex, transactions, nextAccountNumber,
                   result, histVars, crashed, started>>

\* A traversal that raced with a push_back/emplace_back reads freed storage.
RaceCrash(t) ==
    /\ Running(t)
    /\ pc[t] \in AccountsTraversal \cup TransactionsTraversal
    /\ frame[t].raced
    /\ Crash

\* ------------------------------------------------------- specification

Next ==
    \E t \in Threads :
        \/ ChooseCreate(t)
        \/ ChooseDeposit(t)
        \/ ChooseWithdraw(t)
        \/ ChooseTransfer(t)
        \/ ChooseView(t)
        \/ ChooseHistory(t)
        \/ FindFrom(t)
        \/ FindTo(t)
        \/ Deposit(t)
        \/ DepositBody(t)
        \/ WithdrawLock(t)
        \/ WithdrawBody(t)
        \/ TransferLock(t)
        \/ TransferDebit(t)
        \/ TransferLockTarget(t)
        \/ TransferCredit(t)
        \/ OverflowTrap(t)
        \/ SelfLockAbort(t)
        \/ DisplayLock(t)
        \/ DisplayBody(t)
        \/ CreateLock(t)
        \/ CreatePush(t)
        \/ CreateReturn(t)
        \/ RecordLock(t)
        \/ RecordBody(t)
        \/ ViewAllNext(t)
        \/ ViewAllBody(t)
        \/ HistoryNext(t)
        \/ HistoryBody(t)
        \/ RaceCrash(t)

Spec == Init /\ [][Next]_vars

\* ---------------------------------------------------------------- claims

\* Caller t is inside Account::transfer, has debited the source and is at the
\* lock_guard of the target.
AwaitsTarget(t) == pc[t] = "tr_lock_to"

\* Caller t owns the mutex of accounts[i].
Holds(t, i) == accMutex[i] = t

\* C1: for two distinct accounts A and B, no reachable state has one caller
\* in transfer(A->B) and another in transfer(B->A), each holding the lock of
\* its own source account and waiting for the lock the other holds.
C1_NoCircularWait ==
    \A t \in Threads, u \in Threads :
        ~ /\ t # u
          /\ AwaitsTarget(t) /\ AwaitsTarget(u)
          /\ frame[t].from # frame[t].to
          /\ frame[t].to = frame[u].from /\ frame[u].to = frame[t].from
          /\ Holds(t, frame[t].from) /\ Holds(u, frame[u].from)

\* C2: in a transfer between two distinct accounts the lock of the
\* lower-numbered account is acquired first: no caller holds the lock of the
\* higher-numbered account while it has still to acquire the lower-numbered one.
C2_LowerNumberFirst ==
    \A t \in Threads :
        (AwaitsTarget(t) /\ frame[t].from # frame[t].to /\ Holds(t, frame[t].from))
            => accounts[frame[t].from].accountNumber
                 < accounts[frame[t].to].accountNumber

\* C3: whenever an account's lock is not held, its balance is >= 0.
C3_BalanceNonNegative ==
    \A i \in 1..Len(accounts) : accMutex[i] = 0 => accounts[i].balance >= 0

\* C5: whenever a transfer has debited its source and not yet credited its
\* target, the transferring caller holds the locks of both accounts.
C5_BothLocksHeld ==
    \A t \in Threads :
        AwaitsTarget(t) => Holds(t, frame[t].from) /\ Holds(t, frame[t].to)

\* Caller t takes a step from pc a to pc b.
StepOf(t, a, b) == pc[t] = a /\ pc'[t] = b

\* accounts' is accounts with the balance of accounts[i] increased by exactly
\* amount (as integers: the sum is not wrapped).
Increased(i, amount) ==
    /\ ~Overflows(accounts[i].balance, amount)
    /\ accounts' = [accounts EXCEPT ![i].balance = @ + amount]

\* accounts' is accounts with the balance of accounts[i] decreased by exactly amount.
Decreased(i, amount) ==
    accounts' = [accounts EXCEPT ![i].balance = @ - amount]

\* The steps of Account::deposit, Account::withdraw and Bank::createAccount
\* that change Bank::accounts.
OtherWrite(t) ==
    \/ StepOf(t, "dep_cs", "rec_lock") \/ StepOf(t, "wd_cs", "rec_lock")
    \/ StepOf(t, "c_push", "c_ret")

\* C4: a successful transfer of amount A from X to Y decreases balance(X) by
\* exactly A and increases balance(Y) by exactly A and changes no other
\* balance, so the sum of all balances is the same once it has returned; apart
\* from transfers only deposits, withdrawals and new accounts change a balance.
C4_Conservation ==
    [][\A t \in Threads :
          /\ StepOf(t, "tr_cs", "tr_lock_to")
                => Decreased(frame[t].from, frame[t].amount)
          /\ StepOf(t, "tr_credit", "rec_lock")
                => Increased(frame[t].to, frame[t].amount)
          /\ (pc'[t] # pc[t] /\ pc[t] \notin {"tr_cs", "tr_credit"} /\ ~OtherWrite(t))
                => accounts' = accounts]_vars

\* Every caller is at the menu: no operation is in progress.
AllIdle == \A t \in Threads : pc[t] = "menu"

\* What the committed operation e adds to the balance of account number n.
Effect(n, e) ==
    (IF \/ e.type = "Deposit" /\ e.fromAccount = n
        \/ e.type = "Transfer" /\ e.toAccount = n
     THEN e.amount ELSE 0)
    - (IF e.type \in {"Withdraw", "Transfer"} /\ e.fromAccount = n
       THEN e.amount ELSE 0)

\* The sum of the successful credits minus the successful debits of account
\* number n, over the committed operations in S.
RECURSIVE Net(_, _)
Net(n, S) ==
    IF S = {} THEN 0
    ELSE LET e == CHOOSE x \in S : TRUE
         IN  CopiesIn(e, committed) * Effect(n, e) + Net(n, S \ {e})

\* C6: once all operations have completed, every account's balance is its
\* initial balance plus the sum of the successful credits minus the sum of
\* the successful debits on it (as integers); in particular N concurrent
\* deposits of A add exactly N*A.
C6_NoLostUpdate ==
    AllIdle =>
        \A i \in 1..Len(accounts) :
            LET net == Net(accounts[i].accountNumber, BagToSet(committed))
            IN  /\ ~Overflows(opening[i], net)
                /\ accounts[i].balance = opening[i] + net

\* Account number n is not in the registry.
Unregistered(n) == \A i \in 1..Len(accounts) : accounts[i].accountNumber # n

\* The call of caller t is about to be decided and has to fail: the number
\* typed is not registered, or the amount is <= 0, or it exceeds the balance
\* of the source.
MustFail(t) ==
    \/ /\ pc[t] = "find_from"
       /\ frame[t].op \in {"Deposit", "Withdraw", "Transfer"}
       /\ Unregistered(frame[t].accNum)
    \/ pc[t] = "find_to" /\ Unregistered(frame[t].toAcc)
    \/ pc[t] = "dep" /\ frame[t].amount <= 0
    \/ /\ pc[t] \in {"wd_cs", "tr_cs"}
       /\ \/ frame[t].amount <= 0
          \/ frame[t].amount > accounts[frame[t].from].balance

\* C7: a failed operation changes no state: a deposit with amount <= 0, a
\* withdraw or transfer with amount <= 0 or amount > balance of the source,
\* and a deposit, withdraw or transfer naming an unregistered account (also a
\* transfer whose source exists and whose target does not) ends in failure,
\* and an operation that ends in failure has written no balance.
C7_FailureChangesNothing ==
    [][\A t \in Threads :
          /\ (MustFail(t) /\ pc'[t] # pc[t] /\ ~crashed')
                => result'[t].status = "fail" /\ accounts' = accounts
          /\ (result'[t].status = "fail" /\ result[t].status # "fail")
                => accounts' = accounts /\ ~wrote[t]]_vars

\* A transfer ended in failure, and another caller's deposit succeeded, with
\* two accounts registered.
C7_Witness ==
    \E t \in Threads, u \in Threads :
        /\ result[t].op = "Transfer" /\ result[t].status = "fail"
        /\ result[u].op = "Deposit" /\ result[u].status = "ok"
        /\ Len(accounts) = 2

\* C8: no two accounts of the registry carry the same number and no two
\* createAccount calls return the same number; numbers start at
\* BaseAccountNumber and increase in the order of insertion; each call returns
\* the number stored in the account it inserted; the counter grows by exactly
\* 1 per call and never decreases.
C8_UniqueNumbers ==
    /\ [](/\ \A i \in 1..Len(accounts) :
                accounts[i].accountNumber = BaseAccountNumber + i - 1
          /\ \A t \in Threads, u \in Threads :
                (/\ t # u
                 /\ result[t].op = "Create" /\ result[t].status = "ok"
                 /\ result[u].op = "Create" /\ result[u].status = "ok")
                    => result[t].value # result[u].value)
    /\ [][/\ nextAccountNumber' \in {nextAccountNumber, nextAccountNumber + 1}
          /\ \A t \in Threads :
                StepOf(t, "c_ret", "menu")
                    => /\ nextAccountNumber' = nextAccountNumber + 1
                       /\ result'[t].value
                            = accounts[frame[t].from].accountNumber]_vars

\* Both callers have created an account and have their numbers.
C8_Witness ==
    \E t \in Threads, u \in Threads :
        /\ t # u
        /\ result[t].op = "Create" /\ result[t].status = "ok"
        /\ result[u].op = "Create" /\ result[u].status = "ok"

\* The transaction log as a bag of (type, amount, fromAccount, toAccount).
Logged(k) ==
    [type |-> transactions[k].type, amount |-> transactions[k].amount,
     fromAccount |-> transactions[k].fromAccount,
     toAccount |-> transactions[k].toAccount]

LogBag ==
    [e \in {Logged(k) : k \in 1..Len(transactions)} |->
        Cardinality({k \in 1..Len(transactions) : Logged(k) = e})]

\* C9: once all operations have completed, the log holds exactly one record
\* per successful deposit, withdraw and transfer, with its type, amount, source
\* number and target number (-1 for deposit and withdraw), and none for a
\* failed operation.
C9_LogFidelity ==
    AllIdle =>
        /\ DOMAIN LogBag = DOMAIN committed
        /\ \A e \in DOMAIN LogBag : LogBag[e] = committed[e]

\* All operations have completed: a transfer was logged and another
\* operation on the accounts failed.
C9_Witness ==
    /\ AllIdle
    /\ \E k \in 1..Len(transactions) : transactions[k].type = "Transfer"
    /\ \E t \in Threads :
          result[t].status = "fail" /\ result[t].op \in {"Deposit", "Withdraw", "Transfer"}

\* C10: the k-th record of the log has transactionId k, and an append leaves
\* the records already in the log as they are.
C10_SequentialIds ==
    /\ [](\A k \in 1..Len(transactions) : transactions[k].transactionId = k)
    /\ [][/\ Len(transactions') >= Len(transactions)
          /\ \A k \in 1..Len(transactions) : transactions'[k] = transactions[k]]_vars

\* Both callers have finished a successful operation and the log holds the
\* two records.
C10_Witness ==
    /\ Len(transactions) = 2
    /\ \A t \in Threads : pc[t] = "menu" /\ result[t].status = "ok"

\* Caller t owns the mutex of some account.
HoldsAny(t) == \E i \in 1..Len(accounts) : Holds(t, i)

\* Caller t is in userMenu between the successful call and the end of
\* recordTransaction.
Recording(t) == pc[t] \in {"rec_lock", "rec_cs"}

\* The record r of the log as (type, amount, fromAccount, toAccount).
EntryOf(r) ==
    [type |-> r.type, amount |-> r.amount, fromAccount |-> r.fromAccount,
     toAccount |-> r.toAccount]

\* The number of records of the log that carry the entry e.
LogCount(e) == Cardinality({k \in 1..Len(transactions) : Logged(k) = e})

\* C11: a record is appended only for an operation that has committed: a
\* caller on its way to the append has written the balance, its call has
\* returned true and it holds no account lock; the log grows only by the
\* append of such a caller, one record at a time, and the record appended is
\* that of a committed operation not yet in the log.
C11_RecordAfterCommit ==
    /\ [](\A t \in Threads :
            Recording(t) => wrote[t] /\ result[t].status = "ok" /\ ~HoldsAny(t))
    /\ [][transactions' # transactions =>
            /\ Len(transactions') = Len(transactions) + 1
            /\ \E t \in Threads :
                  /\ StepOf(t, "rec_cs", "menu")
                  /\ wrote[t] /\ ~HoldsAny(t)
            /\ LET e == EntryOf(transactions'[Len(transactions')])
               IN  e \in DOMAIN committed /\ LogCount(e) < committed[e]]_vars

\* A transfer has been recorded after the first caller's deposit, while the
\* other caller is inside Account::withdraw holding an account's lock.
C11_Witness ==
    /\ Len(transactions) = 2
    /\ transactions[2].type = "Transfer"
    /\ \E u \in Threads : pc[u] = "wd_cs" /\ HoldsAny(u)

\* Caller t is inside Bank::findAccount or Bank::displayAllAccounts, reading
\* Bank::accounts.
ReadsAccounts(t) == pc[t] \in AccountsTraversal

\* Caller t is inside Bank::displayTransactions, reading Bank::transactions.
ReadsTransactions(t) == pc[t] \in TransactionsTraversal

\* C12: account lookup is safe against concurrent account creation: no
\* reachable state has a caller inside findAccount or displayAllAccounts whose
\* traversal of the registry has been overtaken by an insertion of
\* createAccount into a registry that already held an account (more than one
\* account now).
C12_LookupGuarded ==
    \A t \in Threads :
        (ReadsAccounts(t) /\ Len(accounts) > 1) => ~frame[t].raced

\* C13: listing the log is not corrupted by concurrent appends: no reachable
\* state has a caller inside displayTransactions, with records still to
\* visit, whose iteration has been overtaken by an append of recordTransaction.
C13_ListingGuarded ==
    \A t \in Threads :
        (ReadsTransactions(t) /\ frame[t].it <= frame[t].end) => ~frame[t].raced

\* Caller t is in a lock section of accounts[i]: between a lock_guard on its
\* accMutex and the end of that guard's scope.
InSection(t, i) ==
    \/ pc[t] \in {"dep_cs", "wd_cs", "tr_cs", "tr_lock_to", "tr_credit", "disp_cs"}
          /\ frame[t].from = i
    \/ pc[t] = "tr_credit" /\ frame[t].to = i
    \/ pc[t] = "va_cs" /\ frame[t].it = i

\* C14: every write of an account's balance is made by a caller that holds
\* that account's lock; at most one caller holds a given account's lock, so
\* every caller inside a lock section of an account is its lock's owner; and a
\* debit is made in the lock section that checked the funds: the step that
\* debits is the step of withdraw or transfer that finds 0 < amount <= balance.
C14_WritesUnderLock ==
    /\ [](\A t \in Threads : \A i \in 1..Len(accounts) :
            InSection(t, i) => Holds(t, i))
    /\ [][\A i \in 1..Len(accounts) :
            accounts'[i].balance # accounts[i].balance =>
                \E t \in Threads :
                    /\ Holds(t, i) /\ InSection(t, i) /\ pc'[t] # pc[t]
                    /\ \A u \in Threads \ {t} : ~InSection(u, i)
                    /\ pc[t] \in {"wd_cs", "tr_cs"} =>
                          /\ frame[t].from = i
                          /\ 0 < frame[t].amount
                          /\ frame[t].amount <= accounts[i].balance
                          /\ accounts'[i].balance
                                = accounts[i].balance - frame[t].amount]_vars

\* A caller has debited the source of its transfer and still holds its lock,
\* while the other caller waits at the lock_guard of Account::withdraw on the
\* same account.
C14_Witness ==
    \E t \in Threads, u \in Threads :
        /\ pc[t] = "tr_lock_to" /\ wrote[t] /\ Holds(t, frame[t].from)
        /\ pc[u] = "wd_lock" /\ frame[u].from = frame[t].from

\* Caller t is inside the critical section of Bank::createAccount.
InCreate(t) == pc[t] \in {"c_push", "c_ret"}

\* C15: operations on distinct resources are never serialized by a shared
\* lock: the registry and the log are guarded by distinct locks, so no
\* caller waits at the lock_guard of recordTransaction (the log) for a lock
\* that another caller holds inside createAccount (the registry), and no
\* caller waits at the lock_guard of createAccount for a lock that another
\* caller holds inside recordTransaction.
C15_NoSharedLock ==
    \A t \in Threads, u \in Threads :
        /\ ~(pc[t] = "rec_lock" /\ InCreate(u) /\ globalMutex = u)
        /\ ~(pc[t] = "c_lock" /\ pc[u] = "rec_cs" /\ globalMutex = u)

\* C16: a self-transfer on a registered account always completes and leaves
\* the balance as it was and the lock free: no caller has debited the account
\* and is at the lock_guard of the target, which is the account whose lock it
\* holds itself.
C16_SelfTransferCompletes ==
    \A t \in Threads :
        ~(AwaitsTarget(t) /\ frame[t].from = frame[t].to /\ Holds(t, frame[t].to))

\* The caller that owns the mutex caller t is waiting for at a lock_guard
\* (0: t is not at a lock_guard, or the mutex is free).
Blocker(t) ==
    CASE pc[t] \in {"wd_lock", "tr_lock", "disp_lock"} -> accMutex[frame[t].from]
      [] pc[t] = "dep" /\ ~InvalidDeposit(frame[t].amount) -> accMutex[frame[t].from]
      [] pc[t] = "tr_lock_to" -> accMutex[frame[t].to]
      [] pc[t] = "va_iter" /\ frame[t].it <= frame[t].end -> accMutex[frame[t].it]
      [] pc[t] \in {"c_lock", "rec_lock"} -> globalMutex
      [] pc[t] = "vt_iter" /\ frame[t].it <= frame[t].end -> globalMutex
      [] OTHER -> 0

\* C17: the system is deadlock-free: no reachable state has a non-empty set
\* of callers, each in an operation on distinct accounts, each blocked at a
\* lock_guard on a mutex owned by another caller of the set.
C17_DeadlockFree ==
    \A S \in (SUBSET Threads) \ {{}} :
        ~(\A t \in S : Blocker(t) \in S \ {t})

\* Caller t is at a lock_guard on (or owns) globalMutex.
AtGlobal(t) ==
    \/ globalMutex = t
    \/ pc[t] \in {"c_lock", "rec_lock"}
    \/ pc[t] = "vt_iter" /\ frame[t].it <= frame[t].end

\* Caller t is at a lock_guard on (or owns) the mutex of an account.
AtAccount(t) ==
    \/ HoldsAny(t)
    \/ pc[t] \in {"wd_lock", "tr_lock", "tr_lock_to", "disp_lock"}
    \/ pc[t] = "dep" /\ ~InvalidDeposit(frame[t].amount)
    \/ pc[t] = "va_iter" /\ frame[t].it <= frame[t].end

\* C18: every operation releases every lock it acquired before it returns,
\* on the success path and on every failure path: a caller at the menu, and a
\* caller whose deposit, withdraw or transfer has returned true, holds no
\* account lock; a caller at the menu does not hold the global lock; when all
\* callers are idle every lock is free.
C18_LocksReleased ==
    /\ \A t \in Threads :
          /\ pc[t] \in {"menu", "rec_lock"} => ~HoldsAny(t)
          /\ pc[t] = "menu" => globalMutex # t
    /\ AllIdle =>
          /\ globalMutex = 0
          /\ \A i \in 1..Len(accounts) : accMutex[i] = 0

\* With both numbers registered, a withdraw has returned false from inside
\* its lock section and its caller is back at the menu, while the other
\* caller is inside Account::transfer holding both locks.
C18_Witness ==
    \E t \in Threads, u \in Threads :
        /\ Len(accounts) = 2
        /\ pc[t] = "menu" /\ result[t].op = "Withdraw" /\ result[t].status = "fail"
        /\ pc[u] = "tr_credit"

\* C19: the global lock and the account locks are never nested: no caller
\* holds an account lock while it holds or waits for the global lock, and no
\* caller holds the global lock while it holds or waits for an account lock.
C19_NoNesting ==
    \A t \in Threads :
        /\ ~(HoldsAny(t) /\ AtGlobal(t))
        /\ ~(globalMutex = t /\ AtAccount(t))

\* One caller is inside recordTransaction holding the global lock while the
\* other is inside Account::transfer holding two account locks.
C19_Witness ==
    \E t \in Threads, u \in Threads :
        /\ pc[t] = "rec_cs" /\ globalMutex = t
        /\ pc[u] = "tr_credit" /\ Holds(u, frame[u].from) /\ Holds(u, frame[u].to)

\* Caller t's call of findAccount, made at pc a, returns in this step.
Lookup(t, a) == pc[t] = a /\ pc'[t] # a /\ ~crashed'

\* The steps of Account::deposit, withdraw and transfer that write a balance.
BalanceWrite(t) ==
    pc[t] \in {"dep_cs", "wd_cs", "tr_cs", "tr_credit"} /\ pc'[t] # pc[t]

\* C20: accounts are permanent and found by their number: no step removes an
\* account or changes its number; createAccount inserts the account with the
\* number it returns and the initial balance given, and only a deposit,
\* withdraw or transfer changes a balance afterwards; every findAccount(n) for
\* a registered n returns the account numbered n; findAccount(m) for a number
\* no createAccount has assigned returns not-found and changes nothing.
C20_AccountsPermanent ==
    [][/\ Len(accounts') >= Len(accounts)
       /\ \A i \in 1..Len(accounts) :
             /\ accounts'[i].accountNumber = accounts[i].accountNumber
             /\ accounts'[i].balance # accounts[i].balance
                   => \E t \in Threads : BalanceWrite(t)
       /\ \A t \in Threads :
             /\ StepOf(t, "c_push", "c_ret") =>
                   /\ accounts' = Append(accounts,
                                         [accountNumber |-> nextAccountNumber,
                                          balance |-> frame[t].amount])
             /\ (Lookup(t, "find_from")
                    /\ ~Unregistered(frame[t].accNum)) =>
                   /\ result'[t].status # "fail"
                   /\ frame'[t].from # NULL
                   /\ accounts[frame'[t].from].accountNumber = frame[t].accNum
             /\ (Lookup(t, "find_to")
                    /\ ~Unregistered(frame[t].toAcc)) =>
                   /\ result'[t].status # "fail"
                   /\ frame'[t].to # NULL
                   /\ accounts[frame'[t].to].accountNumber = frame[t].toAcc
             /\ (\/ Lookup(t, "find_from")
                       /\ Unregistered(frame[t].accNum)
                 \/ Lookup(t, "find_to")
                       /\ Unregistered(frame[t].toAcc)) =>
                   /\ result'[t].status = "fail"
                   /\ UNCHANGED bankVars]_vars

=============================================================================
